---- MODULE Spec2Model ----
(***************************************************************************)
(* NdTensor (src/src/lib.rs): a wrapper that owns a tensorflow Tensor<T>   *)
(* together with an ndarray shape value D and hands out ArrayView /        *)
(* ArrayViewMut borrows of the tensor's flat buffer.                       *)
(*                                                                         *)
(* Sequences are 1-based here and 0-based in the source: the element the   *)
(* source calls x[k] is x[k + 1] below.  Index tuples and offsets keep the *)
(* source's 0-based values.                                                *)
(*                                                                         *)
(* Machine integers are scaled: the 64-bit words of the source are         *)
(* WordBits wide here.  The crate is built for 64-bit targets, where usize *)
(* and u64 have the same width.                                            *)
(***************************************************************************)
EXTENDS Integers, Sequences, FiniteSets, TLC

\* ------------------------------------------------------------------ bounds
\* Width of a machine word in the model (the source's 64).
WordBits == 6
\* Largest rank of a tensor or of a fixed-rank shape type (Ix0 .. IxMaxRank).
MaxRank == 3
\* Largest ordinary extent of one dimension.
MaxExtent == 3
\* Largest number of elements of a tensor that can be allocated.
MaxElems == 6
\* Input tensors hold base, base + 1, ... in flat order, base in 0..MaxBase.
MaxBase == 1
\* Number of element writes made through write views.
MaxWrites == 2
\* Number of shared borrows (read views, inner references) alive at once.
MaxBorrows == 2

\* ------------------------------------------------------- program constants
\* The value the tests write through a write view.
TestValue == 42

UsizeLimit == 2 ^ WordBits
U64Limit == 2 ^ WordBits
IsizeMax == 2 ^ (WordBits - 1) - 1

\* A large extent: a quarter of the word range (the source's 1 << 62), which
\* a signed 64-bit tensor dimension can hold.
LargeExtents == {2 ^ (WordBits - 2)}
Extents == (0..MaxExtent) \cup LargeExtents

\* `as usize` of a u64 and `as u64` of a usize.
AsUsize(d) == d % UsizeLimit
AsU64(d) == d % U64Limit

\* A sequence back to front.
Reversed(s) == [k \in 1..Len(s) |-> s[Len(s) + 1 - k]]

RECURSIVE Product(_)
Product(s) == IF s = <<>> THEN 1 ELSE Head(s) * Product(Tail(s))

\* The shape sequences of at most MaxRank extents.
AllDims == UNION {[1..n -> Extents] : n \in 0..MaxRank}

\* ------------------------------------------------------- tensorflow Tensor
\* A Tensor<T>: its dims (u64) and its flat buffer; the buffer's length is
\* the product of the dims.
NoTensor == [dims |-> <<>>, data |-> <<>>]

\* Tensor::new(dims): a zero-initialised tensor.
TensorNew(dims) == [dims |-> dims, data |-> [k \in 1..Product(dims) |-> 0]]

\* Tensor::new(dims).with_values(base, base + 1, ...).
WithValues(dims, base) ==
    [dims |-> dims, data |-> [k \in 1..Product(dims) |-> base + k - 1]]

\* Dims of tensors that fit in memory.
LegalDims == {d \in AllDims : Product(d) <= MaxElems}
Tensors == {WithValues(d, b) : d \in LegalDims, b \in 0..MaxBase}

\* ------------------------------------------------------- ndarray Dimension
\* The shape types D: Ix0 .. IxMaxRank (fixed rank) and IxDyn.
IxN(n) == [kind |-> "fixed", ndim |-> n]
IxDyn == [kind |-> "dyn", ndim |-> 0]
DimTypes == {IxN(n) : n \in 0..MaxRank} \cup {IxDyn}

\* D::default(): all zeros of the type's rank; for IxDyn the one-dimensional
\* shape [0].
DimDefault(D) ==
    IF D.kind = "fixed" THEN [k \in 1..D.ndim |-> 0] ELSE <<0>>

\* The values a caller can pass to zeros for shape type D (IntoDimension<Dim = D>).
DimValues(D) ==
    {d \in LegalDims : D.kind = "fixed" => Len(d) = D.ndim}

\* The index tuples of a shape, each index below its extent.
RECURSIVE Indices(_)
Indices(dim) ==
    IF dim = <<>> THEN {<<>>}
    ELSE {<<i>> \o rest : i \in 0..(Head(dim) - 1), rest \in Indices(Tail(dim))}

\* try_fold(1usize, checked_mul) over the non-zero extents; -1 is None.
RECURSIVE CheckedProductNonzero(_, _)
CheckedProductNonzero(acc, dim) ==
    IF dim = <<>> THEN acc
    ELSE IF Head(dim) = 0 THEN CheckedProductNonzero(acc, Tail(dim))
    ELSE IF acc * Head(dim) >= UsizeLimit THEN -1
    ELSE CheckedProductNonzero(acc * Head(dim), Tail(dim))

\* ndarray's size_of_shape_checked: Err (-1) when the product of the
\* non-zero extents overflows isize, else the number of elements.
SizeOfShapeChecked(dim) ==
    LET nz == CheckedProductNonzero(1, dim)
    IN  IF nz = -1 \/ nz > IsizeMax THEN -1 ELSE Product(dim)

\* ndarray's can_index_slice_not_custom.
CanIndexSlice(dataLen, dim) ==
    LET len == SizeOfShapeChecked(dim)
    IN  len # -1 /\ len <= dataLen

\* ndarray's default (C order) strides: shape (a, b, c) gives (b * c, c, 1);
\* all zero when an extent is zero.
RECURSIVE RowMajorStrides(_)
RowMajorStrides(dim) ==
    IF dim = <<>> THEN <<>>
    ELSE <<Product(Tail(dim))>> \o RowMajorStrides(Tail(dim))
DefaultStrides(dim) ==
    IF \A k \in 1..Len(dim) : dim[k] # 0
    THEN RowMajorStrides(dim)
    ELSE [k \in 1..Len(dim) |-> 0]

\* A view: ok is FALSE for from_shape's Err.
NoView == [ok |-> FALSE, dim |-> <<>>, strides |-> <<>>, elems |-> <<>>]

\* ArrayView::from_shape / ArrayViewMut::from_shape over a flat slice.
FromShape(dim, data) ==
    IF CanIndexSlice(Len(data), dim)
    THEN [ok |-> TRUE, dim |-> dim, strides |-> DefaultStrides(dim), elems |-> data]
    ELSE NoView

\* The flat offset of an index tuple under a view's strides.
RECURSIVE Dot(_, _)
Dot(a, b) == IF a = <<>> THEN 0 ELSE Head(a) * Head(b) + Dot(Tail(a), Tail(b))
Offset(v, idx) == Dot(idx, v.strides)

\* v[idx] of a read view.
Index(v, idx) == v.elems[Offset(v, idx) + 1]

\* v[idx] = x through a write view: the flat buffer after the write.
IndexMut_first(v, data, idx, x) == [data EXCEPT ![1] = x]
IndexMut(v, data, idx, x) == [data EXCEPT ![Offset(v, idx) + 1] = x]

\* ---------------------------------------------------------------- NdTensor
NoSelf == [inner |-> NoTensor, shape |-> <<>>]

\* from_tensor's arity check.
RankMismatch_gt(shape, tensor) == Len(shape) > Len(tensor.dims)
RankMismatch(shape, tensor) == Len(shape) # Len(tensor.dims)

\* from_tensor's loop from idx on: shape[idx] = tensor.dims()[idx] as usize.
RECURSIVE FillShape(_, _, _)
FillShape(shape, dims, idx) ==
    IF idx > Len(shape) THEN shape
    ELSE FillShape([shape EXCEPT ![idx] = AsUsize(dims[idx])], dims, idx + 1)
ShapeOfTensor_rev(shape, tensor) == Reversed(FillShape(shape, tensor.dims, 1))
ShapeOfTensor(shape, tensor) == FillShape(shape, tensor.dims, 1)

\* NdTensor::from_tensor for shape type D.
from_tensor(D, tensor) ==
    LET shape == DimDefault(D)
    IN  IF RankMismatch(shape, tensor)
        THEN [ok |-> FALSE, self |-> NoSelf]
        ELSE [ok |-> TRUE,
              self |-> [inner |-> tensor, shape |-> ShapeOfTensor(shape, tensor)]]

\* NdTensor::zeros.
ShapeVec_drop(shape) == [k \in 1..(Len(shape) - 1) |-> AsU64(shape[k])]
ShapeVec(shape) == [k \in 1..Len(shape) |-> AsU64(shape[k])]
zeros_rev(shape) == [inner |-> TensorNew(Reversed(ShapeVec(shape))), shape |-> shape]
zeros(shape) == [inner |-> TensorNew(ShapeVec(shape)), shape |-> shape]

\* NdTensor::inner_ref and NdTensor::into_inner.
inner_ref(s) == s.inner
into_inner_fresh(s) == TensorNew(s.inner.dims)
into_inner(s) == s.inner

\* NdTensor::view and NdTensor::view_mut before the unwrap.
\* from_shape(self.shape.clone().f(), ..): column-major strides (1, a, a * b).
FortranStrides(dim) ==
    IF \A k \in 1..Len(dim) : dim[k] # 0
    THEN [k \in 1..Len(dim) |-> Product(SubSeq(dim, 1, k - 1))]
    ELSE [k \in 1..Len(dim) |-> 0]
view_fortran(s) ==
    LET v == FromShape(s.shape, s.inner.data)
    IN  IF v.ok THEN [v EXCEPT !.strides = FortranStrides(s.shape)] ELSE v
view(s) == FromShape(s.shape, s.inner.data)
view_mut(s) == FromShape(s.shape, s.inner.data)

\* ------------------------------------------------------------------- state
VARIABLES
    pc,           \* "init", "live", "err" (ShapeError), "panicked", "reclaimed"
    dimType,      \* the shape type D of the NdTensor<T, D>
    ctor,         \* "none", "from_tensor" or "zeros"
    argTensor,    \* the tensor given to from_tensor
    argShape,     \* the shape given to zeros
    self,         \* the NdTensor: [inner, shape]
    initial,      \* the NdTensor as constructed
    readViews,    \* number of live ArrayViews
    innerRefs,    \* number of live &Tensor from inner_ref
    writeViews,   \* number of live ArrayViewMuts
    readView,     \* what the live ArrayViews show
    writeView,    \* the live ArrayViewMut
    lastRef,      \* what the last inner_ref returned
    writes,       \* number of element writes made so far
    lastWritten,  \* the positions written so far, each with its last value
    observed,     \* view() or inner_ref() has been called
    returned      \* the tensor into_inner returned

vars == <<pc, dimType, ctor, argTensor, argShape, self, initial, readViews,
          innerRefs, writeViews, readView, writeView, lastRef, writes,
          lastWritten, observed, returned>>

WriteValues == {0, TestValue}

Init ==
    /\ pc = "init"
    /\ dimType = IxDyn
    /\ ctor = "none"
    /\ argTensor = NoTensor
    /\ argShape = <<>>
    /\ self = NoSelf
    /\ initial = NoSelf
    /\ readViews = 0
    /\ innerRefs = 0
    /\ writeViews = 0
    /\ readView = NoView
    /\ writeView = NoView
    /\ lastRef = NoTensor
    /\ writes = 0
    /\ lastWritten = {}
    /\ observed = FALSE
    /\ returned = NoTensor

\* The borrows the signatures ask for: &self, &mut self and self by value.
CanBorrowShared == writeViews = 0
CanBorrowMut_shared == writeViews >= 0
CanBorrowMut == writeViews = 0 /\ readViews = 0 /\ innerRefs = 0
CanMove == writeViews = 0 /\ readViews = 0 /\ innerRefs = 0

borrowVars == <<readViews, innerRefs, writeViews, readView, writeView, lastRef>>
ghostVars == <<writes, lastWritten>>


\* let r: Result<NdTensor<T, D>, ShapeError> = NdTensor::from_tensor(tensor)
FromTensor ==
    /\ pc = "init"
    /\ \E D \in DimTypes, tensor \in Tensors :
         LET r == from_tensor(D, tensor)
         IN  /\ dimType' = D
             /\ ctor' = "from_tensor"
             /\ argTensor' = tensor
             /\ pc' = IF r.ok THEN "live" ELSE "err"
             /\ self' = r.self
             /\ initial' = r.self
    /\ UNCHANGED <<argShape, returned>>
    /\ UNCHANGED borrowVars
    /\ UNCHANGED ghostVars
    /\ UNCHANGED observed

\* let a: NdTensor<T, D> = NdTensor::zeros(shape)
Zeros ==
    /\ pc = "init"
    /\ \E D \in DimTypes :
         \E shape \in DimValues(D) :
             /\ dimType' = D
             /\ ctor' = "zeros"
             /\ argShape' = shape
             /\ pc' = "live"
             /\ self' = zeros(shape)
             /\ initial' = zeros(shape)
    /\ UNCHANGED <<argTensor, returned>>
    /\ UNCHANGED borrowVars
    /\ UNCHANGED ghostVars
    /\ UNCHANGED observed

\* self.inner_ref()
InnerRef ==
    /\ pc = "live"
    /\ CanBorrowShared
    /\ readViews + innerRefs < MaxBorrows
    /\ innerRefs' = innerRefs + 1
    /\ lastRef' = inner_ref(self)
    /\ observed' = TRUE
    /\ UNCHANGED <<pc, dimType, ctor, argTensor, argShape, self, initial,
                   readViews, writeViews, readView, writeView, returned>>
    /\ UNCHANGED ghostVars

\* The &Tensor of inner_ref goes out of scope.
DropRef ==
    /\ pc = "live"
    /\ innerRefs > 0
    /\ innerRefs' = innerRefs - 1
    /\ lastRef' = IF innerRefs = 1 THEN NoTensor ELSE lastRef
    /\ UNCHANGED <<pc, dimType, ctor, argTensor, argShape, self, initial,
                   readViews, writeViews, readView, writeView, returned>>
    /\ UNCHANGED ghostVars
    /\ UNCHANGED observed

\* The body of a read borrow that ends in view(): the unwrap panics on Err.
TakeView(v) ==
    /\ pc = "live"
    /\ CanBorrowShared
    /\ readViews + innerRefs < MaxBorrows
    /\ IF v.ok
       THEN /\ readViews' = readViews + 1
            /\ readView' = v
            /\ pc' = pc
       ELSE /\ pc' = "panicked"
            /\ UNCHANGED <<readViews, readView>>
    /\ observed' = TRUE
    /\ UNCHANGED <<dimType, ctor, argTensor, argShape, self, initial,
                   innerRefs, writeViews, writeView, lastRef, returned>>
    /\ UNCHANGED ghostVars

\* self.view()
View == TakeView(view(self))

\* let v: ArrayView<T, D> = (&self).into()
IntoArrayView == TakeView(view(self))

\* An ArrayView goes out of scope.
DropView ==
    /\ pc = "live"
    /\ readViews > 0
    /\ readViews' = readViews - 1
    /\ readView' = IF readViews = 1 THEN NoView ELSE readView
    /\ UNCHANGED <<pc, dimType, ctor, argTensor, argShape, self, initial,
                   innerRefs, writeViews, writeView, lastRef, returned>>
    /\ UNCHANGED ghostVars
    /\ UNCHANGED observed

\* The body of a write borrow that ends in view_mut().
TakeViewMut(v) ==
    /\ pc = "live"
    /\ CanBorrowMut
    /\ IF v.ok
       THEN /\ writeViews' = writeViews + 1
            /\ writeView' = v
            /\ pc' = pc
       ELSE /\ pc' = "panicked"
            /\ UNCHANGED <<writeViews, writeView>>
    /\ UNCHANGED <<dimType, ctor, argTensor, argShape, self, initial,
                   readViews, innerRefs, readView, lastRef, returned>>
    /\ UNCHANGED ghostVars
    /\ UNCHANGED observed

\* self.view_mut()
ViewMut == TakeViewMut(view_mut(self))

\* let v: ArrayViewMut<T, D> = (&mut self).into()
IntoArrayViewMut == TakeViewMut(view_mut(self))

\* self.view_mut()[idx] = x, on the live write view.
Write ==
    /\ pc = "live"
    /\ writeViews > 0
    /\ writes < MaxWrites
    /\ \E idx \in Indices(writeView.dim), x \in WriteValues :
         /\ self' = [self EXCEPT !.inner.data = IndexMut(writeView, @, idx, x)]
         /\ lastWritten' = {w \in lastWritten : w.idx # idx}
                              \cup {[idx |-> idx, val |-> x]}
    /\ writes' = writes + 1
    /\ UNCHANGED <<pc, dimType, ctor, argTensor, argShape, initial, returned>>
    /\ UNCHANGED borrowVars
    /\ UNCHANGED observed

\* An ArrayViewMut goes out of scope.
DropViewMut ==
    /\ pc = "live"
    /\ writeViews > 0
    /\ writeViews' = writeViews - 1
    /\ writeView' = IF writeViews = 1 THEN NoView ELSE writeView
    /\ UNCHANGED <<pc, dimType, ctor, argTensor, argShape, self, initial,
                   readViews, innerRefs, readView, lastRef, returned>>
    /\ UNCHANGED ghostVars
    /\ UNCHANGED observed

\* self.into_inner()
IntoInner ==
    /\ pc = "live"
    /\ CanMove
    /\ pc' = "reclaimed"
    /\ returned' = into_inner(self)
    /\ UNCHANGED <<dimType, ctor, argTensor, argShape, self, initial>>
    /\ UNCHANGED borrowVars
    /\ UNCHANGED ghostVars
    /\ UNCHANGED observed

Next ==
    \/ FromTensor
    \/ Zeros
    \/ InnerRef
    \/ DropRef
    \/ View
    \/ IntoArrayView
    \/ DropView
    \/ ViewMut
    \/ IntoArrayViewMut
    \/ Write
    \/ DropViewMut
    \/ IntoInner

Spec == Init /\ [][Next]_vars

\* ------------------------------------------------------------------ claims
\* The constructor returned an NdTensor.
ConstructedOk == pc \in {"live", "panicked", "reclaimed"}

\* The flat position of an index tuple in row-major order (Horner's rule).
RECURSIVE RowMajorPos(_, _, _)
RowMajorPos(acc, dim, idx) ==
    IF dim = <<>> THEN acc
    ELSE RowMajorPos(acc * Head(dim) + Head(idx), Tail(dim), Tail(idx))

\* C1: into a fixed-rank shape type, from_tensor returns Err(ShapeError)
\* exactly when the tensor's number of dimensions differs from the type's
\* rank, and an NdTensor otherwise.
C1_ShapeErrorIffRankDiffers ==
    (ctor = "from_tensor" /\ dimType.kind = "fixed") =>
        /\ (pc = "err") <=> (Len(argTensor.dims) # dimType.ndim)
        /\ (pc # "err") <=> ConstructedOk

C1_Witness ==
    /\ ctor = "from_tensor"
    /\ dimType = IxN(1)
    /\ argTensor = WithValues(<<2, 3>>, 0)
    /\ pc = "err"

\* C2: the shape from_tensor stores, and the shape of every view, has the
\* tensor's extents, each at its own place.
C2_ShapeEqualsDims ==
    (ctor = "from_tensor" /\ ConstructedOk) =>
        /\ Len(self.shape) = Len(argTensor.dims)
        /\ \A i \in 1..Len(argTensor.dims) : self.shape[i] = argTensor.dims[i]
        /\ readViews > 0 => readView.dim = argTensor.dims
        /\ writeViews > 0 => writeView.dim = argTensor.dims

C2_Witness ==
    /\ ctor = "from_tensor"
    /\ argTensor.dims = <<1, 3, 2>>
    /\ self.shape = <<1, 3, 2>>
    /\ readViews > 0
    /\ readView.dim = <<1, 3, 2>>

\* C3: the read view of a shape [r, c] tensor built by from_tensor shows
\* the flat buffer b in row-major order: view[(i, j)] = b[i * c + j].
C3_ViewIsRowMajor ==
    (ctor = "from_tensor" /\ pc = "live" /\ readViews > 0 /\ writes = 0
        /\ Len(argTensor.dims) = 2) =>
        LET r == argTensor.dims[1]
            c == argTensor.dims[2]
        IN  \A i \in 0..(r - 1), j \in 0..(c - 1) :
                Index(readView, <<i, j>>) = argTensor.data[i * c + j + 1]

C3_Witness ==
    /\ ctor = "from_tensor"
    /\ pc = "live"
    /\ readViews > 0
    /\ writes = 0
    /\ argTensor = WithValues(<<2, 3>>, 0)
    /\ Index(readView, <<0, 2>>) = 2
    /\ Index(readView, <<1, 0>>) = 3
    /\ Index(readView, <<1, 2>>) = 5

\* What a position held when the NdTensor was constructed.
OriginalAt(idx) == initial.inner.data[RowMajorPos(0, initial.shape, idx) + 1]

\* C4: after writes through write views, a read view shows at every
\* position the last value written there and the original value where
\* nothing was written; the buffer's length and the shape are unchanged.
C4_WritesAreSeenAndFramed ==
    ConstructedOk =>
        /\ self.shape = initial.shape
        /\ self.inner.dims = initial.inner.dims
        /\ Len(self.inner.data) = Len(initial.inner.data)
        /\ (pc = "live" /\ readViews > 0) =>
              \A idx \in Indices(readView.dim) :
                  IF \E w \in lastWritten : w.idx = idx
                  THEN \E w \in lastWritten :
                          w.idx = idx /\ Index(readView, idx) = w.val
                  ELSE Index(readView, idx) = OriginalAt(idx)

C4_Witness ==
    /\ ctor = "from_tensor"
    /\ pc = "live"
    /\ argTensor = WithValues(<<2, 3>>, 0)
    /\ readViews > 0
    /\ writes = 2
    /\ lastWritten = {[idx |-> <<0, 2>>, val |-> TestValue]}
    /\ readView.elems = <<0, 1, TestValue, 3, 4, 5>>

\* C5: at most one write view is alive, and no read view is alive together
\* with a write view.
C5_WriteViewIsExclusive ==
    /\ writeViews <= 1
    /\ writeViews > 0 => readViews = 0

C5_Witness ==
    /\ writeViews = 1
    /\ readViews = 0
    /\ writes > 0

\* C6: the owned buffer's length is the product of the stored shape's
\* extents, and so is the length of the buffer into_inner returns.
C6_LengthIsProductOfShape ==
    ConstructedOk =>
        /\ Len(self.inner.data) = Product(self.shape)
        /\ pc = "reclaimed" => Len(returned.data) = Product(self.shape)

C6_Witness ==
    /\ pc = "reclaimed"
    /\ ctor = "zeros"
    /\ self.shape = <<2, 3>>
    /\ Len(returned.data) = 6
    /\ writes > 0

\* C7: zeros returns an NdTensor with the given shape, whose tensor has the
\* same extents in the same order, and every element of it, and of its
\* view, is zero until something is written.
C7_ZerosIsZero ==
    ctor = "zeros" =>
        /\ ConstructedOk
        /\ self.shape = argShape
        /\ self.inner.dims = argShape
        /\ readViews > 0 => readView.dim = argShape
        /\ writes = 0 =>
              /\ \A k \in 1..Len(self.inner.data) : self.inner.data[k] = 0
              /\ readViews > 0 =>
                    \A idx \in Indices(readView.dim) : Index(readView, idx) = 0

C7_Witness ==
    /\ ctor = "zeros"
    /\ dimType = IxN(2)
    /\ argShape = <<2, 3>>
    /\ pc = "live"
    /\ readViews > 0
    /\ writes = 0
    /\ readView.elems = <<0, 0, 0, 0, 0, 0>>

\* C8: from_tensor, then any views and inner references and no write, then
\* into_inner returns the tensor that went in, dims and contents.
C8_RoundTrip ==
    (ctor = "from_tensor" /\ writes = 0) =>
        /\ pc = "reclaimed" => returned = argTensor
        /\ innerRefs > 0 => lastRef = argTensor

C8_Witness ==
    /\ ctor = "from_tensor"
    /\ pc = "reclaimed"
    /\ observed
    /\ writes = 0
    /\ returned = WithValues(<<2, 3>>, 0)

\* C9: into the dynamically ranked shape type, from_tensor accepts a tensor
\* of any rank and stores its extents in order.
C9_DynAcceptsAnyRank ==
    (ctor = "from_tensor" /\ dimType.kind = "dyn") =>
        /\ pc # "err"
        /\ self.shape = argTensor.dims

\* C10: view and view_mut never panic on an NdTensor that from_tensor or
\* zeros built, whatever its extents.
C10_ViewNeverPanics == pc # "panicked"

====
